---- MODULE Spec2Model ----
(***************************************************************************)
(* Model of the personal-page backend.  Three of the repository's server   *)
(* iterations are modelled side by side; `variant` selects one of them in  *)
(* the initial state and never changes:                                    *)
(*   "pg1"  : src/server.js lines 1-131    (pg pool, plaintext, disk)       *)
(*   "csrf" : src/server.js lines 317-604  (pg pool, CSRF token, cloud)     *)
(*   "orm"  : src/unnamed/part_000 lines 1-158 (Sequelize, bcrypt, disk)    *)
(* A client is one browser with its own session cookie.  Every handler is  *)
(* one action; register is split at its await so that two registrations    *)
(* can be in flight at once.  `last` is the response most recently sent    *)
(* together with the request fields that produced it.                      *)
(***************************************************************************)
EXTENDS Integers, Sequences, FiniteSets, TLC

VARIABLES variant, users, userSeq, comments, commentSeq, session, files,
          now, tokenSeq, pending, last

vars == <<variant, users, userSeq, comments, commentSeq, session, files,
          now, tokenSeq, pending, last>>

(* ------------------------------ bounds --------------------------------- *)
MaxUserSeq == 2
MaxCommentSeq == 2
MaxClock == 1
MaxTokens == 2
MaxFiles == 2
MaxFilesAll == 1
MaxCommentSeqAll == 1
MaxTextLen == 3

Variants == {"pg1", "csrf", "orm"}
Clients == {1, 2}

(* ------------------------------ values --------------------------------- *)
Missing == "<undefined>"
Null == "<null>"
Usernames == {"alice", "bob"}
Passwords == {"pw1", "pw2"}
Salts == {"s1", "s2"}
Texts == {"hi"}
UsernameInputs == Usernames \cup {Missing}
PasswordInputs == Passwords \cup {Missing}
TextInputs == Texts \cup {"", Missing}
NoFile == [ext |-> Missing, mime |-> Missing, bytes |-> Missing]
Png(bytes) == [ext |-> ".png", mime |-> "image/png", bytes |-> bytes]
Gif(bytes) == [ext |-> ".gif", mime |-> "image/gif", bytes |-> bytes]
FileInputs == {NoFile, Png("A"), Gif("A")}
NoToken == 0
TokenInputs == 0..MaxTokens

NoUser == [id |-> 0, username |-> Null, password |-> Null, avatar |-> Null]
NoSession == [user |-> NoUser, userId |-> 0, csrfToken |-> NoToken]
NoPending == [u |-> Missing, p |-> Missing, file |-> NoFile, free |-> FALSE]

\* JavaScript's !v on a string or undefined
Falsy(v) == v = Missing \/ v = ""

\* node-postgres sends undefined as NULL
ToSql(v) == IF v = Missing THEN Null ELSE v

\* SQL equality: NULL equals nothing
SqlEq(x, y) == x # Null /\ y # Null /\ x = y

\* bcrypt.hash(password, 10): a salted one-way digest that carries its salt
Hash(p, salt) == "$2b$10$" \o salt \o "$" \o p

\* bcrypt.compare(password, hash): rehash under the salt the digest carries
Compare(p, h) == \E s \in Salts : h = Hash(p, s)

\* A token source that hands out the value it issued last
StaleUUID == IF tokenSeq = 0 THEN 1 ELSE tokenSeq

\* crypto.randomUUID(): a value never issued before
RandomUUID == tokenSeq + 1

NoResponse == [op |-> "none", c |-> 0, status |-> 0, ok |-> FALSE,
               error |-> "", u |-> Missing, p |-> Missing, sup |-> NoToken,
               text |-> Missing, id |-> 0, user |-> NoUser,
               token |-> NoToken, list |-> <<>>, raced |-> FALSE,
               f |-> NoFile, prompt |-> Missing, up |-> "none",
               body |-> <<>>, result |-> <<>>]

UniqueViolation == "duplicate key value violates unique constraint"
NotNullViolation == "null value violates not-null constraint"

(* ------------------------------- store --------------------------------- *)
\* A users table whose username column lost its UNIQUE constraint
UsernameNeverTaken(u) == FALSE

\* users.username is UNIQUE
UsernameTaken(u) == \E x \in users : x.username = u

\* The error of INSERT INTO users (username, password, avatar), "" when none
InsertUserError(u, p) ==
    IF ToSql(u) = Null \/ ToSql(p) = Null THEN NotNullViolation
    ELSE IF UsernameTaken(ToSql(u)) THEN UniqueViolation
    ELSE ""

\* The row RETURNING * gives back; id is the next value of the SERIAL sequence
NewUserRow(u, p, a) ==
    [id |-> userSeq + 1, username |-> ToSql(u), password |-> ToSql(p), avatar |-> a]

Init ==
    /\ variant \in Variants
    /\ users = {}
    /\ userSeq = 0
    /\ comments = {}
    /\ commentSeq = 0
    /\ session = [c \in Clients |-> NoSession]
    /\ files = <<>>
    /\ now = 0
    /\ tokenSeq = 0
    /\ pending = [c \in Clients |-> NoPending]
    /\ last = NoResponse

Idle(c) == pending[c] = NoPending

InFlight == Cardinality({c \in Clients : ~Idle(c)})

(* ------------------------------ clock ---------------------------------- *)
Tick ==
    /\ now < MaxClock
    /\ now' = now + 1
    /\ UNCHANGED <<variant, users, userSeq, comments, commentSeq, session,
                   files, tokenSeq, pending, last>>

(* ----------------------------- responses ------------------------------- *)
Resp(op, c, status, ok) ==
    [NoResponse EXCEPT !.op = op, !.c = c, !.status = status, !.ok = ok]

\* What an async handler's uncaught rejection leaves the client with:
\* Express 4 never answers (0), Express 5 answers 500 from its error handler.
Unhandled == {0, 500}

CloudUrl(n) == "https://res.cloudinary.com/avatars/" \o ToString(n)

(* --------------------- POST /register, first variant ------------------- *)
\* The handler up to `await pool.query(INSERT ...)`
Register1Begin(c, u, p) ==
    /\ variant = "pg1"
    /\ Idle(c)
    /\ pending' = [pending EXCEPT ![c] =
          [u |-> u, p |-> p, file |-> NoFile, free |-> ~UsernameTaken(ToSql(u))]]
    /\ UNCHANGED <<variant, users, userSeq, comments, commentSeq, session,
                   files, now, tokenSeq, last>>

\* The INSERT executes and the handler resumes
Register1Complete(c) ==
    /\ variant = "pg1"
    /\ ~Idle(c)
    /\ LET r == pending[c]
           err == InsertUserError(r.u, r.p)
           row == NewUserRow(r.u, r.p, Null)
       IN  /\ userSeq' = userSeq + 1
           /\ IF err = ""
              THEN /\ users' = users \cup {row}
                   /\ session' = [session EXCEPT ![c].user = row]
                   /\ last' = Resp("register", c, 200, TRUE)
              ELSE /\ UNCHANGED <<users, session>>
                   /\ last' = [Resp("register", c, 500, FALSE) EXCEPT
                                  !.error = err,
                                  !.raced = r.free /\ err = UniqueViolation]
    /\ pending' = [pending EXCEPT ![c] = NoPending]
    /\ UNCHANGED <<variant, comments, commentSeq, files, now, tokenSeq>>

(* --------------------- POST /register, CSRF variant -------------------- *)
\* Validation, then `await cloudinary.uploader.upload_stream_promise(...)`
RegisterCsrfBegin(c, u, p, f) ==
    /\ variant = "csrf"
    /\ Idle(c)
    /\ IF Falsy(u) \/ Falsy(p) \/ f = NoFile
       THEN /\ last' = Resp("register", c, 400, FALSE)
            /\ UNCHANGED pending
       ELSE /\ pending' = [pending EXCEPT ![c] =
                  [u |-> u, p |-> p, file |-> f, free |-> ~UsernameTaken(ToSql(u))]]
            /\ UNCHANGED last
    /\ UNCHANGED <<variant, users, userSeq, comments, commentSeq, session,
                   files, now, tokenSeq>>

\* The image host rejects the upload: the catch block answers 500
RegisterCsrfUploadFails(c) ==
    /\ variant = "csrf"
    /\ ~Idle(c)
    /\ last' = [Resp("register", c, 500, FALSE) EXCEPT !.error = "upload failed"]
    /\ pending' = [pending EXCEPT ![c] = NoPending]
    /\ UNCHANGED <<variant, users, userSeq, comments, commentSeq, session,
                   files, now, tokenSeq>>

\* The image host stores the bytes and returns secure_url; then the INSERT,
\* the session fields and the response
RegisterCsrfComplete(c) ==
    /\ variant = "csrf"
    /\ ~Idle(c)
    /\ LET r == pending[c]
           avatarUrl == CloudUrl(Cardinality(DOMAIN files) + 1)
           err == InsertUserError(r.u, r.p)
           row == NewUserRow(r.u, r.p, avatarUrl)
       IN  /\ files' = (avatarUrl :> r.file.bytes) @@ files
           /\ userSeq' = userSeq + 1
           /\ IF err = ""
              THEN /\ users' = users \cup {row}
                   /\ session' = [session EXCEPT ![c].user = row,
                                                 ![c].csrfToken = RandomUUID]
                   /\ tokenSeq' = tokenSeq + 1
                   /\ last' = [Resp("register", c, 200, TRUE) EXCEPT
                                  !.user = row,
                                  !.token = session'[c].csrfToken]
              ELSE /\ UNCHANGED <<users, session, tokenSeq>>
                   /\ last' = [Resp("register", c, 500, FALSE) EXCEPT
                                  !.error = err,
                                  !.raced = r.free /\ err = UniqueViolation]
    /\ pending' = [pending EXCEPT ![c] = NoPending]
    /\ UNCHANGED <<variant, comments, commentSeq, now>>

(* ------------------------- POST /api/users ----------------------------- *)
\* Validation, then `await bcrypt.hash(password, 10)`
ApiUsersBegin(c, u, p) ==
    /\ variant = "orm"
    /\ Idle(c)
    /\ IF Falsy(u) \/ Falsy(p)
       THEN /\ last' = [Resp("register", c, 400, FALSE) EXCEPT
                           !.error = "Missing fields"]
            /\ UNCHANGED pending
       ELSE /\ pending' = [pending EXCEPT ![c] =
                  [u |-> u, p |-> p, file |-> NoFile, free |-> ~UsernameTaken(u)]]
            /\ UNCHANGED last
    /\ UNCHANGED <<variant, users, userSeq, comments, commentSeq, session,
                   files, now, tokenSeq>>

\* The digest is ready (bcrypt drew `salt`); User.create inserts; the session
\* is not touched
ApiUsersComplete(c, salt) ==
    /\ variant = "orm"
    /\ ~Idle(c)
    /\   LET r == pending[c]
             hash == Hash(r.p, salt)
             err == InsertUserError(r.u, hash)
             user == NewUserRow(r.u, hash, Null)
         IN  /\ userSeq' = userSeq + 1
             /\ IF err = ""
                THEN /\ users' = users \cup {user}
                     /\ last' = [Resp("register", c, 200, TRUE) EXCEPT
                                    !.user = [user EXCEPT !.password = Null]]
                ELSE /\ UNCHANGED users
                     /\ last' = [Resp("register", c, 500, FALSE) EXCEPT
                                    !.error = "User creation failed",
                                    !.raced = r.free /\ err = UniqueViolation]
    /\ pending' = [pending EXCEPT ![c] = NoPending]
    /\ UNCHANGED <<variant, comments, commentSeq, session, files, now, tokenSeq>>

(* -------------------------- session predicates ------------------------- *)
\* `req.session.user` is truthy (pg variants)
HasUser(s) == s.user # NoUser

\* `req.session.userId` is truthy (Sequelize variant)
HasUserId(s) == s.userId # 0

\* The spec's "established": the session identifies an account
Established(s) == IF variant = "orm" THEN HasUserId(s) ELSE HasUser(s)

\* The account id an established session is bound to, 0 when absent
BoundId(s) == IF variant = "orm" THEN s.userId ELSE s.user.id

(* ----------------------------- POST /login ----------------------------- *)
\* A login query that forgot the password condition
LoginRowsByUsername(u, p) == {x \in users : SqlEq(x.username, ToSql(u))}

\* SELECT * FROM users WHERE username=$1 AND password=$2
LoginRows(u, p) ==
    {x \in users : SqlEq(x.username, ToSql(u)) /\ SqlEq(x.password, ToSql(p))}

\* A login that assigns the first result row before looking whether there is one
Login1AssignFirst(c, u, p) ==
    /\ variant = "pg1"
    /\ Idle(c)
    /\ LET rows == LoginRows(u, p)
       IN  /\ session' = [session EXCEPT ![c].user =
                             IF rows # {} THEN CHOOSE x \in rows : TRUE ELSE NoUser]
           /\ last' = [Resp("login", c, 200, rows # {}) EXCEPT !.u = u, !.p = p]
    /\ UNCHANGED <<variant, users, userSeq, comments, commentSeq, files, now,
                   tokenSeq, pending>>

Login1(c, u, p) ==
    /\ variant = "pg1"
    /\ Idle(c)
    /\ LET rows == LoginRows(u, p)
       IN  IF rows # {}
           THEN /\ session' = [session EXCEPT ![c].user = CHOOSE x \in rows : TRUE]
                /\ last' = [Resp("login", c, 200, TRUE) EXCEPT !.u = u, !.p = p]
           ELSE /\ UNCHANGED session
                /\ last' = [Resp("login", c, 200, FALSE) EXCEPT !.u = u, !.p = p]
    /\ UNCHANGED <<variant, users, userSeq, comments, commentSeq, files, now,
                   tokenSeq, pending>>

LoginCsrf(c, u, p) ==
    /\ variant = "csrf"
    /\ Idle(c)
    /\ LET rows == LoginRows(u, p)
       IN  IF rows # {}
           THEN /\ session' = [session EXCEPT
                                  ![c].user = CHOOSE x \in rows : TRUE,
                                  ![c].csrfToken = RandomUUID]
                /\ tokenSeq' = tokenSeq + 1
                /\ last' = [Resp("login", c, 200, TRUE) EXCEPT
                               !.u = u, !.p = p, !.token = session'[c].csrfToken]
           ELSE /\ UNCHANGED <<session, tokenSeq>>
                /\ last' = [Resp("login", c, 200, FALSE) EXCEPT
                               !.u = u, !.p = p, !.error = "wrong username or password"]
    /\ UNCHANGED <<variant, users, userSeq, comments, commentSeq, files, now,
                   pending>>

\* User.findOne({ where: { username } }): the set holds the row, if any
FindOne(u) == {x \in users : x.username = u}

ApiLogin(c, u, p) ==
    /\ variant = "orm"
    /\ Idle(c)
    /\ LET found == FindOne(u)
           user == CHOOSE x \in found : TRUE
       IN  IF u = Missing \/ (found # {} /\ p = Missing)
           THEN \* findOne rejects an undefined where value; bcrypt.compare
                \* rejects undefined data: nothing catches either
                /\ \E st \in Unhandled :
                     last' = [Resp("login", c, st, FALSE) EXCEPT
                                 !.u = u, !.p = p, !.error = "unhandled rejection"]
                /\ UNCHANGED session
           ELSE IF found = {} \/ ~Compare(p, user.password)
           THEN /\ last' = [Resp("login", c, 400, FALSE) EXCEPT
                               !.u = u, !.p = p, !.error = "Invalid credentials"]
                /\ UNCHANGED session
           ELSE /\ session' = [session EXCEPT ![c].userId = user.id]
                /\ last' = [Resp("login", c, 200, TRUE) EXCEPT
                               !.u = u, !.p = p,
                               !.user = [user EXCEPT !.password = Null,
                                                     !.avatar = Null]]
    /\ UNCHANGED <<variant, users, userSeq, comments, commentSeq, files, now,
                   tokenSeq, pending>>

(* ------------------------------- GET /me ------------------------------- *)
\* An identify that reads the account from the store again
Me1Fresh(c) ==
    /\ variant = "pg1"
    /\ Idle(c)
    /\ last' = IF HasUser(session[c])
               THEN [Resp("me", c, 200, TRUE) EXCEPT
                        !.user = CHOOSE x \in users : x.id = session[c].user.id]
               ELSE Resp("me", c, 200, FALSE)
    /\ UNCHANGED <<variant, users, userSeq, comments, commentSeq, session,
                   files, now, tokenSeq, pending>>

Me1(c) ==
    /\ variant = "pg1"
    /\ Idle(c)
    /\ last' = IF HasUser(session[c])
               THEN [Resp("me", c, 200, TRUE) EXCEPT !.user = session[c].user]
               ELSE Resp("me", c, 200, FALSE)
    /\ UNCHANGED <<variant, users, userSeq, comments, commentSeq, session,
                   files, now, tokenSeq, pending>>

MeCsrf(c) ==
    /\ variant = "csrf"
    /\ Idle(c)
    /\ last' = IF HasUser(session[c])
               THEN [Resp("me", c, 200, TRUE) EXCEPT
                        !.user = session[c].user,
                        !.token = session[c].csrfToken]
               ELSE Resp("me", c, 200, FALSE)
    /\ UNCHANGED <<variant, users, userSeq, comments, commentSeq, session,
                   files, now, tokenSeq, pending>>

\* A lookup that returns the first account whatever the key
FindFirst(id) == {x \in users : x.id = 1}

\* User.findByPk(id, ...): the set holds the row, if any
FindByPk(id) == {x \in users : x.id = id}

ApiProfile(c) ==
    /\ variant = "orm"
    /\ Idle(c)
    /\ last' = IF ~HasUserId(session[c])
               THEN [Resp("me", c, 403, FALSE) EXCEPT !.error = "Not logged in"]
               ELSE LET found == FindByPk(session[c].userId)
                    IN  [Resp("me", c, 200, TRUE) EXCEPT
                            !.user = IF found = {} THEN NoUser
                                     ELSE [(CHOOSE x \in found : TRUE)
                                              EXCEPT !.password = Null]]
    /\ UNCHANGED <<variant, users, userSeq, comments, commentSeq, session,
                   files, now, tokenSeq, pending>>

(* --------------------------- avatar upload ----------------------------- *)
\* fileFilter of the first variant: cb(null, allowedTypes.includes(mimetype))
AllowedTypes == {"image/jpeg", "image/png"}

MimeAccepted(f) == f # NoFile /\ f.mime \in AllowedTypes

\* filename of the first variant: Date.now() + path.extname(originalname)
Filename1(f) == ToString(now) \o f.ext

\* multer's disk storage writes (and overwrites) the named file
WriteFile(name, bytes) == (name :> bytes) @@ files

\* UPDATE users SET avatar=$1 WHERE id=$2
UpdateAvatar(id, path) ==
    {IF x.id = id THEN [x EXCEPT !.avatar = path] ELSE x : x \in users}

\* upload.single('avatar') runs first and stores an accepted file; then the
\* handler checks the session
UploadAvatar1(c, f) ==
    /\ variant = "pg1"
    /\ Idle(c)
    /\ LET filePath == "/uploads/" \o Filename1(f)
       IN  /\ IF MimeAccepted(f)
              THEN files' = WriteFile(filePath, f.bytes)
              ELSE UNCHANGED files
           /\ IF ~HasUser(session[c])
              THEN /\ last' = [Resp("upload", c, 401, FALSE) EXCEPT !.f = f,
                                  !.error = "Unauthorized"]
                   /\ UNCHANGED <<users, session>>
              ELSE IF ~MimeAccepted(f)
              THEN \* req.file is undefined: TypeError before the try block
                   /\ \E st \in Unhandled :
                        last' = [Resp("upload", c, st, FALSE) EXCEPT !.f = f,
                                    !.error = "unhandled rejection"]
                   /\ UNCHANGED <<users, session>>
              ELSE /\ users' = UpdateAvatar(session[c].user.id, filePath)
                   /\ session' = [session EXCEPT ![c].user.avatar = filePath]
                   /\ last' = [Resp("upload", c, 200, TRUE) EXCEPT !.f = f,
                                  !.user = [NoUser EXCEPT !.avatar = filePath]]
    /\ UNCHANGED <<variant, userSeq, comments, commentSeq, now, tokenSeq, pending>>

\* path.extname(originalname).toLowerCase()
ToLowerCase(ext) ==
    CASE ext = ".PNG" -> ".png"
      [] ext = ".JPG" -> ".jpg"
      [] ext = ".JPEG" -> ".jpeg"
      [] ext = ".GIF" -> ".gif"
      [] OTHER -> ext

\* fileFilter of the Sequelize variant
ExtAccepted(f) == ToLowerCase(f.ext) \in {".png", ".jpg", ".jpeg"}

\* `${req.session.userId}-${Date.now()}${path.extname(file.originalname)}`
FilenameOrm(s, f) ==
    (IF s.userId = 0 THEN "undefined" ELSE ToString(s.userId))
        \o "-" \o ToString(now) \o f.ext

ApiUploadAvatar(c, f) ==
    /\ variant = "orm"
    /\ Idle(c)
    /\ LET avatarUrl == "/avatars/" \o FilenameOrm(session[c], f)
       IN  IF f # NoFile /\ ~ExtAccepted(f)
           THEN \* cb(new Error(...)): Express's error handler answers 500
                /\ last' = [Resp("upload", c, 500, FALSE) EXCEPT !.f = f,
                               !.error = "Only JPG and PNG allowed"]
                /\ UNCHANGED <<users, files>>
           ELSE /\ IF f # NoFile
                   THEN files' = WriteFile(avatarUrl, f.bytes)
                   ELSE UNCHANGED files
                /\ IF ~HasUserId(session[c])
                   THEN /\ last' = [Resp("upload", c, 403, FALSE) EXCEPT !.f = f,
                                       !.error = "Not logged in"]
                        /\ UNCHANGED users
                   ELSE IF f = NoFile
                   THEN \* req.file is undefined: TypeError, nothing catches it
                        /\ \E st \in Unhandled :
                             last' = [Resp("upload", c, st, FALSE) EXCEPT !.f = f,
                                         !.error = "unhandled rejection"]
                        /\ UNCHANGED users
                   ELSE /\ users' = UpdateAvatar(session[c].userId, avatarUrl)
                        /\ last' = [Resp("upload", c, 200, TRUE) EXCEPT !.f = f,
                                       !.user = [NoUser EXCEPT !.avatar = avatarUrl]]
    /\ UNCHANGED <<variant, userSeq, comments, commentSeq, session, now,
                   tokenSeq, pending>>

(* ------------------------------ comments ------------------------------- *)
\* A check that only asks for some token
VerifyCsrfPresent(token, s) == token # NoToken

\* verifyCsrf: next() is called iff this holds; otherwise 403
VerifyCsrf(token, s) == ~(token = NoToken \/ token # s.csrfToken)

\* The row an INSERT INTO comments / Message.create adds
NewComment(userId, content, createdAt) ==
    [id |-> commentSeq + 1, user_id |-> userId, content |-> content,
     createdAt |-> createdAt]

\* INSERT INTO comments (user_id, content): content is TEXT NOT NULL
InsertComment(c, token, userId, text) ==
    /\ commentSeq' = commentSeq + 1
    /\ IF ToSql(text) = Null
       THEN /\ UNCHANGED comments
            /\ last' = [Resp("comment", c, 500, FALSE) EXCEPT
                           !.text = text, !.sup = token,
                           !.error = NotNullViolation]
       ELSE /\ comments' = comments \cup {NewComment(userId, text, 0)}
            /\ last' = [Resp("comment", c, 200, TRUE) EXCEPT
                           !.text = text, !.sup = token, !.id = commentSeq + 1]

Comment1(c, text) ==
    /\ variant = "pg1"
    /\ Idle(c)
    /\ IF ~HasUser(session[c])
       THEN /\ last' = [Resp("comment", c, 401, FALSE) EXCEPT !.text = text]
            /\ UNCHANGED <<comments, commentSeq>>
       ELSE InsertComment(c, NoToken, session[c].user.id, text)
    /\ UNCHANGED <<variant, users, userSeq, session, files, now, tokenSeq, pending>>

CommentCsrf(c, token, text) ==
    /\ variant = "csrf"
    /\ Idle(c)
    /\ IF ~VerifyCsrf(token, session[c])
       THEN /\ last' = [Resp("comment", c, 403, FALSE) EXCEPT
                           !.text = text, !.sup = token,
                           !.error = "Invalid CSRF token"]
            /\ UNCHANGED <<comments, commentSeq>>
       ELSE IF ~HasUser(session[c])
       THEN /\ last' = [Resp("comment", c, 401, FALSE) EXCEPT
                           !.text = text, !.sup = token]
            /\ UNCHANGED <<comments, commentSeq>>
       ELSE InsertComment(c, token, session[c].user.id, text)
    /\ UNCHANGED <<variant, users, userSeq, session, files, now, tokenSeq, pending>>

ApiMessagesPost(c, text) ==
    /\ variant = "orm"
    /\ Idle(c)
    /\ IF ~HasUserId(session[c])
       THEN /\ last' = [Resp("comment", c, 403, FALSE) EXCEPT
                           !.text = text, !.error = "Not logged in"]
            /\ UNCHANGED <<comments, commentSeq>>
       ELSE IF Falsy(text)
       THEN /\ last' = [Resp("comment", c, 400, FALSE) EXCEPT
                           !.text = text, !.error = "Message is empty"]
            /\ UNCHANGED <<comments, commentSeq>>
       ELSE /\ commentSeq' = commentSeq + 1
            /\ comments' = comments \cup {NewComment(session[c].userId, text, now)}
            /\ last' = [Resp("comment", c, 200, TRUE) EXCEPT
                           !.text = text, !.id = commentSeq + 1]
    /\ UNCHANGED <<variant, users, userSeq, session, files, now, tokenSeq, pending>>

\* One result row of the listing: the comment joined with its author
Joined(m) ==
    LET author == CHOOSE x \in users : x.id = m.user_id
    IN  [id |-> m.id, content |-> m.content, user_id |-> m.user_id,
         createdAt |-> m.createdAt,
         username |-> author.username, avatar |-> author.avatar]

\* ORDER BY column DESC: the orderings of the rows S in which the column
\* never increases; rows with equal values come in any order, as the store
\* defines none
Descending(S, column) ==
    {q \in [1..Cardinality(S) -> S] :
        /\ \A i, j \in 1..Cardinality(S) : i # j => q[i] # q[j]
        /\ \A i \in 1..(Cardinality(S) - 1) : q[i][column] >= q[i + 1][column]}

\* JOIN users ON comments.user_id = users.id
JoinedComments ==
    {Joined(m) : m \in {k \in comments : \E x \in users : x.id = k.user_id}}

\* ... ORDER BY comments.id DESC
Comments1(c) ==
    /\ variant \in {"pg1", "csrf"}
    /\ Idle(c)
    /\ \E q \in Descending(JoinedComments, "id") :
         last' = [Resp("comments", c, 200, TRUE) EXCEPT !.list = q]
    /\ UNCHANGED <<variant, users, userSeq, comments, commentSeq, session,
                   files, now, tokenSeq, pending>>

\* Message.findAll({ include: User, order: [['createdAt', 'DESC']] })
ApiMessagesGet(c) ==
    /\ variant = "orm"
    /\ Idle(c)
    /\ \E q \in Descending({Joined(m) : m \in comments}, "createdAt") :
         last' = [Resp("comments", c, 200, TRUE) EXCEPT !.list = q]
    /\ UNCHANGED <<variant, users, userSeq, comments, commentSeq, session,
                   files, now, tokenSeq, pending>>

\* A delete statement that forgot the owner condition
DeleteRowsById(id, userId) == {m \in comments : m.id = id}

\* DELETE FROM comments WHERE id=$1 AND user_id=$2
DeleteRows(id, userId) == {m \in comments : m.id = id /\ m.user_id = userId}

\* The statement runs and the handler answers { success: rowCount > 0 }
DeleteComment(c, token, id) ==
    /\ comments' = comments \ DeleteRows(id, session[c].user.id)
    /\ last' = [Resp("delete", c, 200, DeleteRows(id, session[c].user.id) # {})
                   EXCEPT !.id = id, !.sup = token]

Delete1(c, id) ==
    /\ variant = "pg1"
    /\ Idle(c)
    /\ IF ~HasUser(session[c])
       THEN /\ last' = [Resp("delete", c, 401, FALSE) EXCEPT !.id = id]
            /\ UNCHANGED comments
       ELSE DeleteComment(c, NoToken, id)
    /\ UNCHANGED <<variant, users, userSeq, commentSeq, session, files, now,
                   tokenSeq, pending>>

DeleteCsrf(c, token, id) ==
    /\ variant = "csrf"
    /\ Idle(c)
    /\ IF ~VerifyCsrf(token, session[c])
       THEN /\ last' = [Resp("delete", c, 403, FALSE) EXCEPT
                           !.id = id, !.sup = token,
                           !.error = "Invalid CSRF token"]
            /\ UNCHANGED comments
       ELSE IF ~HasUser(session[c])
       THEN /\ last' = [Resp("delete", c, 401, FALSE) EXCEPT
                           !.id = id, !.sup = token]
            /\ UNCHANGED comments
       ELSE DeleteComment(c, token, id)
    /\ UNCHANGED <<variant, users, userSeq, commentSeq, session, files, now,
                   tokenSeq, pending>>

ApiMessagesDelete(c, id) ==
    /\ variant = "orm"
    /\ Idle(c)
    /\ LET found == {m \in comments : m.id = id}
           message == CHOOSE m \in found : TRUE
       IN  IF ~HasUserId(session[c])
           THEN /\ last' = [Resp("delete", c, 403, FALSE) EXCEPT
                               !.id = id, !.error = "Not logged in"]
                /\ UNCHANGED comments
           ELSE IF found = {} \/ message.user_id # session[c].userId
           THEN /\ last' = [Resp("delete", c, 403, FALSE) EXCEPT
                               !.id = id,
                               !.error = "Not allowed to delete this message"]
                /\ UNCHANGED comments
           ELSE /\ comments' = comments \ {message}
                /\ last' = [Resp("delete", c, 200, TRUE) EXCEPT !.id = id]
    /\ UNCHANGED <<variant, users, userSeq, commentSeq, session, files, now,
                   tokenSeq, pending>>

(* ------------- image-host variant (src/unnamed/part_001) --------------- *)
\* The fourth server iteration: pg pool, plaintext passwords, register through
\* the image host's callback interface, multer() with its default memory
\* storage.  It runs under `variant = "cloud"`.
InitCloud ==
    /\ variant = "cloud"
    /\ users = {}
    /\ userSeq = 0
    /\ comments = {}
    /\ commentSeq = 0
    /\ session = [c \in Clients |-> NoSession]
    /\ files = <<>>
    /\ now = 0
    /\ tokenSeq = 0
    /\ pending = [c \in Clients |-> NoPending]
    /\ last = NoResponse

\* Validation, then upload_stream(..., callback) and stream.end(file.buffer);
\* the handler returns and the callback answers later
RegisterCloudBegin(c, u, p, f) ==
    /\ variant = "cloud"
    /\ Idle(c)
    /\ IF Falsy(u) \/ Falsy(p) \/ f = NoFile
       THEN /\ last' = Resp("register", c, 400, FALSE)
            /\ UNCHANGED pending
       ELSE /\ pending' = [pending EXCEPT ![c] =
                  [u |-> u, p |-> p, file |-> f, free |-> ~UsernameTaken(ToSql(u))]]
            /\ UNCHANGED last
    /\ UNCHANGED <<variant, users, userSeq, comments, commentSeq, session,
                   files, now, tokenSeq>>

\* The callback is called with an error: it answers 500
RegisterCloudUploadFails(c) ==
    /\ variant = "cloud"
    /\ ~Idle(c)
    /\ last' = [Resp("register", c, 500, FALSE) EXCEPT !.error = "upload failed"]
    /\ pending' = [pending EXCEPT ![c] = NoPending]
    /\ UNCHANGED <<variant, users, userSeq, comments, commentSeq, session,
                   files, now, tokenSeq>>

\* The callback is called with the result: INSERT, session, response.  The
\* callback is an async function of its own: when the INSERT rejects, the
\* handler's try/catch is long gone, nothing answers the request (status 0)
RegisterCloudComplete(c) ==
    /\ variant = "cloud"
    /\ ~Idle(c)
    /\ LET r == pending[c]
           avatarUrl == CloudUrl(Cardinality(DOMAIN files) + 1)
           err == InsertUserError(r.u, r.p)
           row == NewUserRow(r.u, r.p, avatarUrl)
       IN  /\ files' = (avatarUrl :> r.file.bytes) @@ files
           /\ userSeq' = userSeq + 1
           /\ IF err = ""
              THEN /\ users' = users \cup {row}
                   /\ session' = [session EXCEPT ![c].user = row]
                   /\ last' = [Resp("register", c, 200, TRUE) EXCEPT !.user = row]
              ELSE /\ UNCHANGED <<users, session>>
                   /\ last' = [Resp("register", c, 0, FALSE) EXCEPT
                                  !.error = "unhandled rejection",
                                  !.raced = r.free /\ err = UniqueViolation]
    /\ pending' = [pending EXCEPT ![c] = NoPending]
    /\ UNCHANGED <<variant, comments, commentSeq, now, tokenSeq>>

LoginCloud(c, u, p) ==
    /\ variant = "cloud"
    /\ Idle(c)
    /\ LET rows == LoginRows(u, p)
       IN  IF rows # {}
           THEN /\ session' = [session EXCEPT ![c].user = CHOOSE x \in rows : TRUE]
                /\ last' = [Resp("login", c, 200, TRUE) EXCEPT !.u = u, !.p = p]
           ELSE /\ UNCHANGED session
                /\ last' = [Resp("login", c, 200, FALSE) EXCEPT
                               !.u = u, !.p = p,
                               !.error = "wrong username or password"]
    /\ UNCHANGED <<variant, users, userSeq, comments, commentSeq, files, now,
                   tokenSeq, pending>>

MeCloud(c) ==
    /\ variant = "cloud"
    /\ Idle(c)
    /\ last' = IF HasUser(session[c])
               THEN [Resp("me", c, 200, TRUE) EXCEPT !.user = session[c].user]
               ELSE Resp("me", c, 200, FALSE)
    /\ UNCHANGED <<variant, users, userSeq, comments, commentSeq, session,
                   files, now, tokenSeq, pending>>

\* multer() keeps the upload in memory: req.file has a buffer and no
\* filename, and nothing is written anywhere
FilenameMemory(f) == "undefined"

\* POST /upload-avatar of the image-host variant: no file filter, no storage
UploadAvatarCloud(c, f) ==
    /\ variant = "cloud"
    /\ Idle(c)
    /\ LET filePath == "/uploads/" \o FilenameMemory(f)
       IN  IF ~HasUser(session[c])
           THEN /\ last' = [Resp("upload", c, 401, FALSE) EXCEPT !.f = f,
                               !.error = "Unauthorized"]
                /\ UNCHANGED <<users, session>>
           ELSE IF f = NoFile
           THEN \* req.file is undefined: TypeError before the try block
                /\ \E st \in Unhandled :
                     last' = [Resp("upload", c, st, FALSE) EXCEPT !.f = f,
                                 !.error = "unhandled rejection"]
                /\ UNCHANGED <<users, session>>
           ELSE /\ users' = UpdateAvatar(session[c].user.id, filePath)
                /\ session' = [session EXCEPT ![c].user.avatar = filePath]
                /\ last' = [Resp("upload", c, 200, TRUE) EXCEPT !.f = f,
                               !.user = [NoUser EXCEPT !.avatar = filePath]]
    /\ UNCHANGED <<variant, userSeq, comments, commentSeq, files, now,
                   tokenSeq, pending>>

(* ------------------------------ POST /gpt-alt -------------------------- *)
\* A text is a sequence of symbols: letters, the blank, and the marker of the
\* assistant's turn, which the code searches for as one substring
Delimiter == "<|assistant|>"
Symbols == {"a", "b", " ", Delimiter}

RECURSIVE TextsUpTo(_)
TextsUpTo(n) ==
    IF n = 0 THEN {<<>>}
    ELSE LET shorter == TextsUpTo(n - 1)
         IN  shorter \cup {Append(t, x) : t \in {k \in shorter : Len(k) = n - 1},
                                          x \in Symbols}

\* What the provider may put in generated_text
ProviderTexts == TextsUpTo(MaxTextLen)

\* The fixed strings of the handlers, one symbol each
ParseFallback == <<"the model's answer was abnormal, try again later">>
BusyFallback == <<"the model is busy, try again later">>
ConnectFallback == <<"cannot reach the model, try again later">>
FailureMarker == <<"[divination failed]">>
NoAnswerMarker == <<"[HuggingFace gave no answer]">>

\* The message of the exception a failed fetch or a failed parse raises
RawError(up) ==
    CASE up = "transport" -> "fetch failed"
      [] up = "html" -> "Unexpected token < in JSON at position 0"
      [] up = "null" -> "Cannot read properties of null (reading 'error')"
      [] OTHER -> ""

\* What can come back from the provider: no answer at all (the fetch
\* rejects), a body that is not JSON, the JSON value null, an object with an
\* error text (busy, or something else), and a generated text inside an array
\* or inside an object, or an array or object without one
Upstreams ==
    {"transport", "html", "null", "busy", "loading", "array", "object",
     "empty-array", "empty-object"}

\* data.error?.includes('Model too busy')
IsBusy(up) == up = "busy"

\* Array.isArray(data) ? data[0]?.generated_text : data.generated_text;
\* <<>> stands for undefined as well as for the empty string: both are falsy
GeneratedText(up, body) == IF up \in {"array", "object"} THEN body ELSE <<>>

\* String.prototype.trim on a text
RECURSIVE TrimStart(_)
TrimStart(t) == IF t # <<>> /\ Head(t) = " " THEN TrimStart(Tail(t)) ELSE t

RECURSIVE TrimEnd(_)
TrimEnd(t) ==
    IF t # <<>> /\ t[Len(t)] = " " THEN TrimEnd(SubSeq(t, 1, Len(t) - 1)) ELSE t

Trim(t) == TrimEnd(TrimStart(t))

\* fullText.includes('<|assistant|>')
Includes(t) == \E i \in 1..Len(t) : t[i] = Delimiter

\* fullText.split('<|assistant|>'): the pieces between the markers, in order
RECURSIVE Split(_)
Split(t) ==
    IF ~Includes(t) THEN <<t>>
    ELSE LET i == CHOOSE k \in 1..Len(t) :
                     t[k] = Delimiter /\ \A j \in 1..(k - 1) : t[j] # Delimiter
         IN  <<SubSeq(t, 1, i - 1)>> \o Split(SubSeq(t, i + 1, Len(t)))

\* The result computed from a truthy fullText
Extract(fullText) ==
    IF Includes(fullText) THEN Trim(Split(fullText)[2]) ELSE Trim(fullText)

\* POST /gpt-alt of the CSRF variant
GptAltCsrf(c, prompt, up, body) ==
    /\ variant = "csrf"
    /\ Idle(c)
    /\ LET r == [Resp("generate", c, 200, FALSE) EXCEPT
                    !.prompt = prompt, !.up = up, !.body = body]
           fullText == GeneratedText(up, body)
       IN  last' =
             IF up \in {"transport", "null"}
             THEN \* fetch rejects, or data.error throws on null: the outer catch
                  [r EXCEPT !.status = 500, !.result = ConnectFallback]
             ELSE IF up = "html"
             THEN [r EXCEPT !.result = ParseFallback]
             ELSE IF IsBusy(up)
             THEN [r EXCEPT !.result = BusyFallback]
             ELSE [r EXCEPT !.ok = TRUE,
                            !.result = IF fullText = <<>> THEN FailureMarker
                                       ELSE Extract(fullText)]
    /\ UNCHANGED <<variant, users, userSeq, comments, commentSeq, session,
                   files, now, tokenSeq, pending>>

\* POST /gpt-alt of the image-host variant
GptAltCloud(c, prompt, up, body) ==
    /\ variant = "cloud"
    /\ Idle(c)
    /\ LET r == [Resp("generate", c, 200, FALSE) EXCEPT
                    !.prompt = prompt, !.up = up, !.body = body]
       IN  last' =
             IF up \in {"transport", "html"}
             THEN \* fetch or response.json() rejects: the catch sends err.message
                  [r EXCEPT !.status = 500, !.error = RawError(up)]
             ELSE IF up = "array" /\ body # <<>>
             THEN [r EXCEPT !.ok = TRUE, !.result = body]
             ELSE [r EXCEPT !.result = NoAnswerMarker]
    /\ UNCHANGED <<variant, users, userSeq, comments, commentSeq, session,
                   files, now, tokenSeq, pending>>

(* --------------------------- specifications ---------------------------- *)
\* Budgets that keep the counters within the bounds: a request that will
\* draw a value is admitted only while one is left for it
UserBudget == userSeq + InFlight < MaxUserSeq

TokenBudget == tokenSeq + InFlight < MaxTokens

FileBudget == Cardinality(DOMAIN files) + InFlight < MaxFiles

CommentBudget == commentSeq < MaxCommentSeq

\* The tighter budgets of the specification that runs every endpoint
FileBudgetAll == Cardinality(DOMAIN files) + InFlight < MaxFilesAll

CommentBudgetAll == commentSeq < MaxCommentSeqAll

\* Registration, login and identification, with every kind of input
NextGate ==
    \/ \E c \in Clients, u \in UsernameInputs, p \in PasswordInputs :
         \/ UserBudget /\ Register1Begin(c, u, p)
         \/ UserBudget /\ ApiUsersBegin(c, u, p)
         \/ \E f \in {NoFile, Png("A")} :
              UserBudget /\ TokenBudget /\ FileBudget /\ RegisterCsrfBegin(c, u, p, f)
         \/ Login1(c, u, p)
         \/ TokenBudget /\ LoginCsrf(c, u, p)
         \/ ApiLogin(c, u, p)
    \/ \E c \in Clients :
         \/ Register1Complete(c)
         \/ RegisterCsrfUploadFails(c)
         \/ RegisterCsrfComplete(c)
         \/ \E salt \in Salts : ApiUsersComplete(c, salt)
         \/ Me1(c)
         \/ MeCsrf(c)
         \/ ApiProfile(c)

SpecGate == Init /\ [][NextGate]_vars

CommentIds == 1..MaxCommentSeq

\* Every endpoint of the three variants
Next ==
    \/ Tick
    \/ \E c \in Clients, u \in Usernames :
         \/ UserBudget /\ Register1Begin(c, u, "pw1")
         \/ UserBudget /\ ApiUsersBegin(c, u, "pw1")
         \/ UserBudget /\ TokenBudget /\ FileBudget
              /\ RegisterCsrfBegin(c, u, "pw1", Png("A"))
         \/ \E p \in Passwords :
              \/ Login1(c, u, p)
              \/ TokenBudget /\ LoginCsrf(c, u, p)
              \/ ApiLogin(c, u, p)
    \/ \E c \in Clients :
         \/ Register1Complete(c)
         \/ RegisterCsrfUploadFails(c)
         \/ RegisterCsrfComplete(c)
         \/ ApiUsersComplete(c, "s1")
         \/ Me1(c)
         \/ MeCsrf(c)
         \/ ApiProfile(c)
         \/ Comments1(c)
         \/ ApiMessagesGet(c)
    \/ \E c \in Clients, f \in FileInputs :
         \/ FileBudgetAll /\ UploadAvatar1(c, f)
         \/ FileBudgetAll /\ ApiUploadAvatar(c, f)
    \/ \E c \in Clients, text \in TextInputs :
         \/ CommentBudgetAll /\ Comment1(c, text)
         \/ CommentBudgetAll /\ ApiMessagesPost(c, text)
         \/ \E token \in TokenInputs :
              CommentBudgetAll /\ CommentCsrf(c, token, text)
    \/ \E c \in Clients, id \in CommentIds :
         \/ Delete1(c, id)
         \/ ApiMessagesDelete(c, id)
         \/ \E token \in TokenInputs : DeleteCsrf(c, token, id)

Spec == Init /\ [][Next]_vars

\* The comment ledger: accounts, logins and every comment request
NextLedger ==
    \/ Tick
    \/ \E c \in Clients, u \in Usernames :
         \/ UserBudget /\ Register1Begin(c, u, "pw1")
         \/ UserBudget /\ ApiUsersBegin(c, u, "pw1")
         \/ UserBudget /\ TokenBudget /\ FileBudget
              /\ RegisterCsrfBegin(c, u, "pw1", Png("A"))
         \/ Login1(c, u, "pw1")
         \/ TokenBudget /\ LoginCsrf(c, u, "pw1")
         \/ ApiLogin(c, u, "pw1")
    \/ \E c \in Clients :
         \/ Register1Complete(c)
         \/ RegisterCsrfComplete(c)
         \/ ApiUsersComplete(c, "s1")
         \/ Comments1(c)
         \/ ApiMessagesGet(c)
    \/ \E c \in Clients, text \in TextInputs :
         \/ CommentBudget /\ Comment1(c, text)
         \/ CommentBudget /\ ApiMessagesPost(c, text)
         \/ \E token \in TokenInputs :
              CommentBudget /\ CommentCsrf(c, token, text)
    \/ \E c \in Clients, id \in CommentIds :
         \/ Delete1(c, id)
         \/ ApiMessagesDelete(c, id)
         \/ \E token \in TokenInputs : DeleteCsrf(c, token, id)

SpecLedger == Init /\ [][NextLedger]_vars

\* The files a caller may send as `avatar`
AvatarInputs == {NoFile, Png("A"), Png("B"), Gif("A")}

\* The variants that have an avatar upload route
InitAvatar ==
    \/ Init /\ variant \in {"pg1", "orm"}
    \/ InitCloud

\* Accounts, logins, identification and every avatar upload
NextAvatar ==
    \/ Tick
    \/ \E c \in Clients, u \in Usernames :
         \/ UserBudget /\ Register1Begin(c, u, "pw1")
         \/ UserBudget /\ ApiUsersBegin(c, u, "pw1")
         \/ UserBudget /\ FileBudget /\ RegisterCloudBegin(c, u, "pw1", Png("A"))
         \/ Login1(c, u, "pw1")
         \/ ApiLogin(c, u, "pw1")
         \/ LoginCloud(c, u, "pw1")
    \/ \E c \in Clients :
         \/ Register1Complete(c)
         \/ ApiUsersComplete(c, "s1")
         \/ RegisterCloudUploadFails(c)
         \/ RegisterCloudComplete(c)
         \/ Me1(c)
         \/ ApiProfile(c)
         \/ MeCloud(c)
    \/ \E c \in Clients, f \in AvatarInputs :
         \/ FileBudget /\ UploadAvatar1(c, f)
         \/ FileBudget /\ ApiUploadAvatar(c, f)
         \/ UploadAvatarCloud(c, f)

SpecAvatar == InitAvatar /\ [][NextAvatar]_vars

\* What the caller may send as `prompt`
PromptInputs == {"", "hello"}

\* The variants that have the text-generation route
InitOracle ==
    \/ Init /\ variant = "csrf"
    \/ InitCloud

\* The body matters only when the provider sent a generated text
BodiesOf(up) == IF up \in {"array", "object"} THEN ProviderTexts ELSE {<<>>}

\* Every request to the text-generation route, with every provider answer
NextOracle ==
    \E c \in Clients, prompt \in PromptInputs, up \in Upstreams :
      \E body \in BodiesOf(up) :
         \/ GptAltCsrf(c, prompt, up, body)
         \/ GptAltCloud(c, prompt, up, body)

SpecOracle == InitOracle /\ [][NextOracle]_vars

(* ------------------------------- claims -------------------------------- *)
\* The stored forms a password may take in the running variant
StoredFor(p) == IF variant = "orm" THEN {Hash(p, s) : s \in Salts} ELSE {p}

\* The accounts registered under username u with password p
Registered(u, p) == {x \in users : x.username = u /\ x.password \in StoredFor(p)}

\* The request of client c that was in flight is answered in this step
Completes(c) == ~Idle(c) /\ pending'[c] = NoPending

C2_LoginMatchesRegistration ==
    [][last'.op = "login" =>
         LET c == last'.c
             acct == Registered(last'.u, last'.p)
         IN  IF acct # {}
             THEN /\ last'.ok /\ last'.status = 200
                  /\ Established(session'[c])
                  /\ \E x \in acct : BoundId(session'[c]) = x.id
             ELSE /\ ~last'.ok
                  /\ (last'.u # Missing /\ last'.p # Missing)
                        => last'.status \in {200, 400}
                  /\ session' = session]_vars

\* C2 witness: a caller whose session is established has just failed a login
\* with a wrong password for an existing account.
C2_Witness ==
    /\ last.op = "login" /\ ~last.ok /\ last.p \in Passwords
    /\ \E x \in users : x.username = last.u
    /\ Established(session[last.c])

\* C3 (as claimed): after every successful register the caller's session is
\* established and bound to the account just created.
C3_RegisterEstablishesSession ==
    (last.op = "register" /\ last.ok)
       => /\ Established(session[last.c])
          /\ BoundId(session[last.c]) = userSeq

\* C4: a session becomes established only in the step that answers its own
\* client's successful login or register, and an established session never
\* becomes absent again, whatever request is handled.
C4_SessionTransitions ==
    [][\A c \in Clients :
         /\ (~Established(session[c]) /\ Established(session'[c]))
               => /\ last'.c = c /\ last'.ok
                  /\ last'.op \in {"login", "register"}
         /\ Established(session[c]) => Established(session'[c])]_vars

\* C4 witness: one client's session is established while another client,
\* whose session is absent, has just been refused a mutating request.
C4_Witness ==
    \E c, d \in Clients :
        /\ Established(session[c]) /\ ~Established(session[d])
        /\ last.c = d /\ last.op \in {"upload", "comment", "delete"}
        /\ last.status \in {401, 403}

\* C5: identify answers with the account the caller's session is bound to and
\* with none when the session is absent, and changes neither sessions nor
\* store; the binding of a session changes only in the step that answers its
\* own client's successful login or register, and a successful login binds it
\* to the account of the username given.
C5_IdentifyIsPureLookup ==
    [][/\ last'.op = "me" =>
            LET c == last'.c
            IN  /\ UNCHANGED <<users, userSeq, comments, commentSeq, session, files>>
                /\ IF Established(session[c])
                   THEN /\ last'.ok /\ last'.status = 200
                        /\ last'.user.id = BoundId(session[c])
                        /\ \E x \in users : /\ x.id = last'.user.id
                                            /\ x.username = last'.user.username
                   ELSE ~last'.ok /\ last'.user = NoUser
       /\ \A c \in Clients :
            BoundId(session'[c]) # BoundId(session[c])
               => /\ last'.c = c /\ last'.ok
                  /\ last'.op \in {"login", "register"}
       /\ (last'.op = "login" /\ last'.ok)
             => \E x \in users : /\ x.username = last'.u
                                 /\ x.id = BoundId(session'[last'.c])]_vars

\* C5 witness: identify has just answered with the second account, to which
\* the caller's session is bound.
C5_Witness ==
    /\ last.op = "me" /\ last.ok /\ last.user.id = 2
    /\ BoundId(session[last.c]) = 2

\* C6: a comment create or delete of the CSRF variant passes the token check
\* exactly when a token is supplied and equals the one stored on the caller's
\* session; otherwise it is answered 403 and no comment is created or deleted.
C6_RequireCsrf ==
    [][(variant = "csrf" /\ last'.op \in {"comment", "delete"}) =>
         LET s == session[last'.c]
         IN  IF last'.sup # NoToken /\ last'.sup = s.csrfToken
             THEN last'.status # 403
             ELSE /\ last'.status = 403 /\ ~last'.ok
                  /\ UNCHANGED <<comments, commentSeq>>]_vars

\* C6 witness: a logged-in caller who holds a token has supplied another
\* issued token and was answered 403, with a comment in the ledger.
C6_Witness ==
    /\ variant = "csrf" /\ last.op \in {"comment", "delete"} /\ last.status = 403
    /\ last.sup # NoToken /\ session[last.c].csrfToken # NoToken
    /\ HasUser(session[last.c])
    /\ comments # {}

\* C7: in the CSRF variant every successful login or register stores on the
\* caller's session a token that no session held before and returns that same
\* token; the token the session held before is then rejected by the check.
C7_FreshCsrfToken ==
    [][(variant = "csrf" /\ last' # last /\ last'.ok
          /\ last'.op \in {"login", "register"}) =>
         LET c == last'.c
         IN  /\ last'.token # NoToken
             /\ session'[c].csrfToken = last'.token
             /\ \A d \in Clients : session[d].csrfToken # last'.token
             /\ session[c].csrfToken # NoToken
                   => ~VerifyCsrf(session[c].csrfToken, session'[c])]_vars

\* C7 witness: a session that already held a token has logged in again and
\* holds the second token issued.
C7_Witness ==
    /\ variant = "csrf" /\ last.op = "login" /\ last.ok
    /\ tokenSeq = 2 /\ last.token = 2 /\ session[last.c].csrfToken = 2
    /\ \A d \in Clients \ {last.c} : session[d].csrfToken = NoToken

\* C8 (as claimed): an avatar upload, comment create or comment delete made
\* without an established session is refused and changes no account, no
\* comment and no stored avatar file.
C8_NoSessionChangesNothing ==
    [][(last'.op \in {"upload", "comment", "delete"}
          /\ ~Established(session[last'.c]))
         => /\ ~last'.ok
            /\ UNCHANGED <<users, comments, files>>]_vars

\* C9 (as claimed): a create without a session or with a missing or empty
\* text fails, and every comment in the ledger has a non-empty text and an
\* existing author.
C9_CommentsAreNonEmpty ==
    /\ (last.op = "comment" /\ Falsy(last.text)) => ~last.ok
    /\ (last.op = "comment" /\ ~Established(session[last.c])) => ~last.ok
    /\ \A m \in comments :
         /\ ~Falsy(m.content)
         /\ \E x \in users : x.id = m.user_id

\* C10 (as claimed): a listing holds every comment of the ledger exactly once,
\* newest first, so the most recently created comment comes first.
C10_ListNewestFirst ==
    last.op = "comments" =>
       /\ Len(last.list) = Cardinality(comments)
       /\ {last.list[i].id : i \in 1..Len(last.list)} = {m.id : m \in comments}
       /\ \A i \in 1..(Len(last.list) - 1) : last.list[i].id > last.list[i + 1].id

\* The answer a variant gives to a delete that removed nothing
DeleteRefused(r) ==
    /\ ~r.ok
    /\ r.status = (IF variant = "orm" THEN 403 ELSE 200)
    /\ r.error = (IF variant = "orm" THEN "Not allowed to delete this message"
                  ELSE "")

\* C11: a delete by a caller with an established session (and, in the CSRF
\* variant, the right token) removes the comment with the given id when that
\* comment exists and its author is the caller's account, removes nothing
\* else and succeeds; when the id names no comment or a comment of another
\* account the ledger is unchanged and the answer is the same refusal in both
\* cases.  No other request removes a comment.
C11_DeleteOnlyOwn ==
    [][/\ (last'.op = "delete" /\ last' # last
            /\ Established(session[last'.c])
            /\ (variant = "csrf" => VerifyCsrf(last'.sup, session[last'.c])))
          => LET target == {m \in comments : m.id = last'.id}
                 own == {m \in target : m.user_id = BoundId(session[last'.c])}
             IN  IF own # {}
                 THEN /\ last'.ok /\ last'.status = 200
                      /\ comments' = comments \ own
                      /\ Cardinality(own) = 1
                 ELSE /\ DeleteRefused(last')
                      /\ comments' = comments
       /\ (comments \ comments' # {})
             => last'.op = "delete" /\ last'.ok /\ last' # last]_vars

\* C11 witness: a logged-in caller was refused the delete of a comment that
\* exists and belongs to another account, and the comment is still there.
C11_Witness ==
    /\ last.op = "delete" /\ DeleteRefused(last)
    /\ Established(session[last.c])
    /\ \E m \in comments : /\ m.id = last.id
                            /\ m.user_id # BoundId(session[last.c])

\* The declared type of a file is in the allow-set {jpg, jpeg, png}
AllowedFile(f) ==
    /\ ToLowerCase(f.ext) \in {".png", ".jpg", ".jpeg"}
    /\ f.mime \in AllowedTypes

\* An error response that tells the caller the file type is not supported
UnsupportedMedia(r) ==
    ~r.ok /\ r.status >= 400 /\ r.error = "Only JPG and PNG allowed"

\* C12 (as claimed): an avatar upload by a logged-in caller of a file whose
\* declared type is outside {jpg, jpeg, png} is answered with an
\* UnsupportedMedia error response and changes no account; a file of an
\* allowed type is accepted.
C12_UnsupportedTypeRejected ==
    [][(last'.op = "upload" /\ last' # last /\ last'.f # NoFile
          /\ Established(session[last'.c]))
         => IF AllowedFile(last'.f)
            THEN last'.ok
            ELSE UnsupportedMedia(last') /\ users' = users]_vars

\* C13 (as claimed): when an avatar upload succeeds, the avatarRef of the
\* caller's account in the store is the URL returned to the caller, and that
\* URL names a stored object whose content is the uploaded bytes.
C13_AvatarRefIsStoredUpload ==
    [][(last'.op = "upload" /\ last' # last /\ last'.ok)
         => LET url == last'.user.avatar
            IN  /\ \E x \in users' : /\ x.id = BoundId(session[last'.c])
                                     /\ x.avatar = url
                /\ url \in DOMAIN files'
                /\ files'[url] = last'.f.bytes]_vars

\* C14 (as claimed): an accepted avatar upload of a logged-in caller is stored
\* under a name no earlier upload was stored under, so every file stored
\* before keeps its content.
C14_StorageNamesDiffer ==
    [][(last'.op = "upload" /\ last' # last /\ last'.ok /\ files' # files)
         => /\ DOMAIN files' # DOMAIN files
            /\ \A n \in DOMAIN files : n \in DOMAIN files' /\ files'[n] = files[n]]_vars

\* The strings a handler substitutes for an answer it could not get
Fallbacks == {ParseFallback, BusyFallback, ConnectFallback, NoAnswerMarker}

\* C15 (as claimed): for every prompt, when the upstream call fails in
\* transport, returns a body that is not JSON, or reports that the model is
\* busy, generate answers without an error status and without the raw error
\* text, carrying one of the fallback strings.
C15_GenerateFallsBack ==
    (last.op = "generate" /\ last.up \in {"transport", "html", "busy"})
       => /\ last.status = 200
          /\ last.error = ""
          /\ last.result \in Fallbacks

\* The text after the last marker, the whole text when there is none
AfterLastDelimiter(t) ==
    IF \E i \in 1..Len(t) : t[i] = Delimiter
    THEN LET i == CHOOSE k \in 1..Len(t) :
                     t[k] = Delimiter /\ \A j \in (k + 1)..Len(t) : t[j] # Delimiter
         IN  SubSeq(t, i + 1, Len(t))
    ELSE t

\* C16 (as claimed): the reply generate extracts from a provider text is the
\* text after the last assistant-turn marker, or the whole text when it has
\* no marker, trimmed of surrounding blanks.
C16_ReplyAfterLastDelimiter ==
    (last.op = "generate" /\ variant = "csrf" /\ last.ok
       /\ GeneratedText(last.up, last.body) # <<>>)
       => last.result = Trim(AfterLastDelimiter(GeneratedText(last.up, last.body)))

\* C17 (as claimed): every request that has been handled was answered: no
\* request is left without a response and none ends in an exception that no
\* handler caught.
C17_EveryRequestAnswered ==
    last.op # "none" => (last.status # 0 /\ last.error # "unhandled rejection")

\* C18: in the variants that keep the account record in the session, identify
\* reports the record cached in the caller's session; a successful avatar
\* upload changes the account in the store and the uploader's own cached
\* record, and leaves every other session as it was, a session of the same
\* account included; a cached record changes only in the step that answers
\* its own client's successful login, register or upload, and a successful
\* login caches the account as the store has it.  So a second session of the
\* account reports its login-time avatar until it logs in again.
C18_CachedAvatarDiverges ==
    [][variant # "orm" =>
         /\ (last'.op = "me" /\ last' # last /\ last'.ok)
               => last'.user = session[last'.c].user
         /\ (last'.op = "upload" /\ last' # last /\ last'.ok)
               => /\ \A d \in Clients \ {last'.c} : session'[d] = session[d]
                  /\ session'[last'.c].user.avatar = last'.user.avatar
                  /\ \E x \in users' : /\ x.id = session[last'.c].user.id
                                       /\ x.avatar = last'.user.avatar
         /\ \A d \in Clients :
              session'[d].user # session[d].user
                 => /\ last'.c = d /\ last'.ok
                    /\ last'.op \in {"login", "register", "upload"}
         /\ (last'.op = "login" /\ last' # last /\ last'.ok)
               => session'[last'.c].user \in users']_vars

\* C18 witness: two sessions are bound to one account, the account's avatar
\* in the store is an uploaded file, and identify in the session that did not
\* upload has just reported the avatar of its login time, which is none.
C18_Witness ==
    /\ variant = "pg1" /\ last.op = "me" /\ last.ok
    /\ \E c \in Clients \ {last.c} :
         /\ session[c].user.id = last.user.id
         /\ session[c].user.avatar \in DOMAIN files
    /\ \E x \in users : /\ x.id = last.user.id
                        /\ x.avatar \in DOMAIN files
                        /\ x.avatar # last.user.avatar
    /\ last.user.avatar = Null

====
